---- MODULE Spec2Model ----
(***************************************************************************)
(* A model of src/invoicer/nexudus.py: the paginated fetch (get_records),  *)
(* the record processor (process_batch), the two reconcilers               *)
(* (add_or_overwrite_member, add_or_overwrite_invoice), the sync           *)
(* orchestrator (sync_table) and mark_invoice_paid.                        *)
(*                                                                         *)
(* Python values.  A str is a sequence of one-character strings; None (in  *)
(* a place that otherwise holds a str) is the one-element sequence None.   *)
(* A dict is a function whose DOMAIN is its set of keys, so d[k] raises    *)
(* KeyError exactly when k is not in DOMAIN d.  A nullable Boolean column  *)
(* holds "True", "False" or "None".  Amounts are counted in hundredths.    *)
(*                                                                         *)
(* The persistence session is SQLAlchemy's: members and invoices are what  *)
(* the session of the running sync sees (pending changes included, since   *)
(* every query autoflushes), membersC and invoicesC are what is committed. *)
(***************************************************************************)
EXTENDS Integers, Sequences, FiniteSets, TLC

VARIABLES
    kind,                   \* "member" | "invoice" | "paid": the entry point exercised
    nexudus_space_id,       \* sync_table's tenant argument
    PROCESS_AUTOMATICALLY,  \* config.PROCESS_AUTOMATICALLY
    remote,                 \* the remote collection the query selects, in order
    members, invoices,      \* tables as seen by the session db_sess
    membersC, invoicesC,    \* tables as committed
    pc,                     \* position of the running entry point
    current_page,           \* get_records: current_page
    has_next_page,          \* get_records: has_next_page
    record_list,            \* process_batch: the batch in flight
    idx,                    \* callback: position of the next record in record_list
    requests,               \* GET requests issued by this run, in order (their params)
    yielded,                \* batches yielded by get_records in this run, in order
    handled,                \* callback: records passed to sync_callback in this run
    start,                  \* the committed tables when the running sync began
    ended,                  \* one entry per finished sync run: how it ended, the store left
    now,                    \* datetime.datetime.now()
    invoice_id,             \* mark_invoice_paid's argument
    nexudus_invoice,        \* mark_invoice_paid: how get_single left, <<the record returned>>
    posts,                  \* POST requests issued (create_record payloads)
    result                  \* mark_invoice_paid: what the call returned or raised

vars == <<kind, nexudus_space_id, PROCESS_AUTOMATICALLY, remote, members, invoices,
          membersC, invoicesC, pc, current_page, has_next_page, record_list, idx,
          requests, yielded, handled, start, ended, now, invoice_id, nexudus_invoice,
          posts, result>>

----------------------------------------------------------------------------
(* Bounds of the model *)

MaxRecords == 3     \* most records in the remote collection
MaxBatch == 2       \* most records the remote puts in one page
MaxRows == 2        \* most rows in the local store at the start
MaxRuns == 2        \* sync runs in a row against the same remote collection

----------------------------------------------------------------------------
(* Python values *)

None == <<"None">>

Truthy(s) == s # None /\ s # <<>>

IsSpace(c) == c = " "

RECURSIVE lstrip(_)
lstrip(s) == IF s # <<>> /\ IsSpace(s[1]) THEN lstrip(Tail(s)) ELSE s

RECURSIVE rstrip(_)
rstrip(s) ==
    IF s # <<>> /\ IsSpace(s[Len(s)]) THEN rstrip(SubSeq(s, 1, Len(s) - 1)) ELSE s

strip(s) == rstrip(lstrip(s))

nstrip(s) == IF Truthy(s) THEN strip(s) ELSE None

Digits == <<"0", "1", "2", "3", "4", "5", "6", "7", "8", "9">>

IsDigit(c) == \E d \in 1..Len(Digits) : Digits[d] = c

DigitVal(c) == (CHOOSE d \in 1..Len(Digits) : Digits[d] = c) - 1

AllDigits(s) == \A i \in 1..Len(s) : IsDigit(s[i])

RECURSIVE DigitsValue(_)
DigitsValue(s) ==
    IF s = <<>> THEN 0
    ELSE DigitsValue(SubSeq(s, 1, Len(s) - 1)) * 10 + DigitVal(s[Len(s)])

(* float(x) for x a str of the form digits[.digits] with at most two       *)
(* decimals, surrounding whitespace allowed: the amount in hundredths.     *)
(* None raises TypeError; any other str of the model raises ValueError.    *)
Raised(e) == [exc |-> e, value |-> 0]

Returned(v) == [exc |-> "none", value |-> v]

float(x) ==
    IF x = None THEN Raised("TypeError")
    ELSE LET s == strip(x)
             dots == {i \in 1..Len(s) : s[i] = "."}
         IN  IF s = <<>> THEN Raised("ValueError")
             ELSE IF dots = {} THEN
                 IF AllDigits(s) THEN Returned(DigitsValue(s) * 100)
                 ELSE Raised("ValueError")
             ELSE IF Cardinality(dots) > 1 THEN Raised("ValueError")
             ELSE LET d == CHOOSE i \in dots : TRUE
                      ip == SubSeq(s, 1, d - 1)
                      fp == SubSeq(s, d + 1, Len(s))
                  IN  IF ~AllDigits(ip) \/ ~AllDigits(fp) \/ Len(ip) + Len(fp) = 0
                         \/ Len(fp) > 2
                      THEN Raised("ValueError")
                      ELSE Returned(DigitsValue(ip) * 100
                                    + (IF Len(fp) = 1 THEN DigitsValue(fp) * 10
                                       ELSE DigitsValue(fp)))

Without(d, k) == [x \in DOMAIN d \ {k} |-> d[x]]

RECURSIVE SeqsUpTo(_, _)
SeqsUpTo(S, n) ==
    IF n = 0 THEN {<<>>}
    ELSE LET shorter == SeqsUpTo(S, n - 1)
         IN  shorter \cup {Append(s, x) : s \in {t \in shorter : Len(t) = n - 1}, x \in S}

----------------------------------------------------------------------------
(* The local store: rows of models.Member and models.Invoice *)

(* as a filter that selects no row *)
Matching_nothing(rows, col, key) == {}

(* Query.filter_by(col=key): the positions of the rows selected *)
Matching(rows, col, key) == {i \in 1..Len(rows) : rows[i][col] = key}

(* as Query.first(): several rows are taken for one *)
one_or_none_first(found) == IF found = {} THEN "None" ELSE "one"

(* as a lookup on the wrong column: a single row is not found *)
one_or_none_blind(found) ==
    IF Cardinality(found) > 1 THEN "MultipleResultsFound" ELSE "None"

(* Query.one_or_none() on the rows a filter selects *)
one_or_none(found) ==
    IF found = {} THEN "None"
    ELSE IF Cardinality(found) = 1 THEN "one"
    ELSE "MultipleResultsFound"

(* as a delete that removes the first of the rows selected only *)
DeleteMatching_first(rows, col, key) ==
    LET found == {i \in 1..Len(rows) : rows[i][col] = key}
        first == CHOOSE i \in found : \A j \in found : i <= j
    IN  IF found = {} THEN rows
        ELSE SubSeq(rows, 1, first - 1) \o SubSeq(rows, first + 1, Len(rows))

(* as a delete that removes nothing *)
DeleteMatching_nothing(rows, col, key) == rows

(* Query.delete() on the rows a filter selects *)
DeleteMatching(rows, col, key) == SelectSeq(rows, LAMBDA r : r[col] # key)

NewMember ==
    [nexudus_user_id |-> 0, fullname |-> None, billing_name |-> None, email |-> None,
     routing_number |-> None, account_number |-> None, process_automatically |-> "None"]

(* add_or_overwrite_member, lines 311-320: the assignments in the order    *)
(* the code makes them, each reading one key of the record.                *)
MemberKeys == <<"Id", "FullName", "BillingName", "Email", "BankBranch", "BankAccount">>

(* as line 313 without "or record["FullName"]" *)
SetMemberField_no_fallback(m, k, record) ==
    CASE k = "Id" -> [m EXCEPT !.nexudus_user_id = record.Id]
      [] k = "FullName" -> [m EXCEPT !.fullname = record.FullName]
      [] k = "BillingName" -> [m EXCEPT !.billing_name = record.BillingName]
      [] k = "Email" -> [m EXCEPT !.email = record.Email]
      [] k = "BankBranch" -> [m EXCEPT !.routing_number = record.BankBranch]
      [] k = "BankAccount" -> [m EXCEPT !.account_number = record.BankAccount]

SetMemberField(m, k, record) ==
    CASE k = "Id" -> [m EXCEPT !.nexudus_user_id = record.Id]
      [] k = "FullName" -> [m EXCEPT !.fullname = record.FullName]
      [] k = "BillingName" ->
            [m EXCEPT !.billing_name =
                IF Truthy(record.BillingName) THEN record.BillingName ELSE record.FullName]
      [] k = "Email" -> [m EXCEPT !.email = record.Email]
      [] k = "BankBranch" -> [m EXCEPT !.routing_number = record.BankBranch]
      [] k = "BankAccount" -> [m EXCEPT !.account_number = record.BankAccount]

RECURSIVE AssignMember(_, _, _)
AssignMember(m, record, i) ==
    IF i > Len(MemberKeys) THEN [row |-> m, exc |-> "none"]
    ELSE IF MemberKeys[i] \notin DOMAIN record THEN [row |-> m, exc |-> "KeyError"]
    ELSE AssignMember(SetMemberField(m, MemberKeys[i], record), record, i + 1)

(* as lines 332-333 with a test that never passes *)
BankPopulated_never(m) == FALSE

(* as lines 332-333 with "or" for "and" *)
BankPopulated_either(m) ==
    Truthy(nstrip(m.routing_number)) \/ Truthy(nstrip(m.account_number))

(* lines 330-340 *)
BankPopulated(m) == Truthy(nstrip(m.routing_number)) /\ Truthy(nstrip(m.account_number))

(* as lines 337-338 with the already_stored test inverted *)
SetProcessAutomatically_inverted(m, already_stored, default) ==
    IF BankPopulated(m)
    THEN IF already_stored THEN [m EXCEPT !.process_automatically = default] ELSE m
    ELSE [m EXCEPT !.process_automatically = "False"]

(* as lines 337-338 without the already_stored test *)
SetProcessAutomatically_always(m, already_stored, default) ==
    IF BankPopulated(m)
    THEN [m EXCEPT !.process_automatically = default]
    ELSE [m EXCEPT !.process_automatically = "False"]

SetProcessAutomatically(m, already_stored, default) ==
    IF BankPopulated(m)
    THEN IF ~already_stored THEN [m EXCEPT !.process_automatically = default] ELSE m
    ELSE [m EXCEPT !.process_automatically = "False"]

(* add_or_overwrite_member(record, db_sess): the Member table the session  *)
(* sees afterwards, whether the session was committed, and the exception   *)
(* that left the call ("none" when it returned).                           *)
add_or_overwrite_member(record, ms, default) ==
    IF "Id" \notin DOMAIN record THEN [members |-> ms, commit |-> FALSE, exc |-> "KeyError"]
    ELSE
    LET found == Matching(ms, "nexudus_user_id", record.Id)
        multiple == one_or_none(found) = "MultipleResultsFound"
        ms1 == IF multiple THEN DeleteMatching(ms, "nexudus_user_id", record.Id) ELSE ms
        already_stored == one_or_none(found) = "one"
        ms2 == IF already_stored THEN ms1 ELSE Append(ms1, NewMember)
        at == IF already_stored THEN CHOOSE i \in found : TRUE ELSE Len(ms2)
        assigned == AssignMember(ms2[at], record, 1)
    IN  IF assigned.exc # "none"
        THEN [members |-> [ms2 EXCEPT ![at] = assigned.row], commit |-> FALSE,
              exc |-> assigned.exc]
        ELSE LET m == SetProcessAutomatically(assigned.row, already_stored, default)
                 ms3 == [ms2 EXCEPT ![at] = m]
             IN  \* line 346: "Syncing " + member_to_add.email
                 IF m.email = None
                 THEN [members |-> ms3, commit |-> FALSE, exc |-> "TypeError"]
                 ELSE [members |-> ms3, commit |-> TRUE, exc |-> "none"]

(* as lines 257-266 with finalized = True *)
NewInvoice_finalized(record, amount, t) ==
    [nexudus_invoice_id |-> record.Id, nexudus_user_id |-> record.CoworkerId,
     nexudus_space_id |-> record.BusinessId, time_created |-> t, amount |-> amount,
     finalized |-> TRUE, txn_id |-> "None", txn_status |-> "Not processed",
     txn_statuscode |-> "None"]

(* add_or_overwrite_invoice, lines 257-266: the row created *)
NewInvoice(record, amount, t) ==
    [nexudus_invoice_id |-> record.Id, nexudus_user_id |-> record.CoworkerId,
     nexudus_space_id |-> record.BusinessId, time_created |-> t, amount |-> amount,
     finalized |-> FALSE, txn_id |-> "None", txn_status |-> "Not processed",
     txn_statuscode |-> "None"]

(* as lines 231-235 with first() for one_or_none(): duplicate owners gate *)
Gated_first(record, ms) ==
    LET found == Matching(ms, "nexudus_user_id", record.CoworkerId)
    IN  /\ found # {}
        /\ ms[CHOOSE i \in found : TRUE].process_automatically # "True"

(* as line 234 without its "not" *)
Gated_inverted(record, ms) ==
    LET found == Matching(ms, "nexudus_user_id", record.CoworkerId)
    IN  /\ one_or_none(found) = "one"
        /\ ms[CHOOSE i \in found : TRUE].process_automatically = "True"

(* lines 230-240: TRUE when the call returns at the gate *)
Gated(record, ms) ==
    LET found == Matching(ms, "nexudus_user_id", record.CoworkerId)
    IN  /\ one_or_none(found) = "one"
        /\ ms[CHOOSE i \in found : TRUE].process_automatically # "True"

add_or_overwrite_invoice(record, ms, is, t) ==
    LET same(e) == [invoices |-> is, commit |-> FALSE, exc |-> e]
    IN
    IF "CoworkerId" \notin DOMAIN record THEN same("KeyError")
    ELSE IF Gated(record, ms) THEN same("none")
    ELSE IF "Id" \notin DOMAIN record THEN same("KeyError")
    ELSE
    LET found == Matching(is, "nexudus_invoice_id", record.Id)
        multiple == one_or_none(found) = "MultipleResultsFound"
        is1 == IF multiple THEN DeleteMatching(is, "nexudus_invoice_id", record.Id) ELSE is
        pending(e) == [invoices |-> is1, commit |-> FALSE, exc |-> e]
    IN  IF one_or_none(found) = "one" THEN same("none")
        ELSE IF "BusinessId" \notin DOMAIN record THEN pending("KeyError")
        ELSE IF "TotalAmount" \notin DOMAIN record THEN pending("KeyError")
        ELSE LET amount == float(record.TotalAmount)
             IN  IF amount.exc # "none" THEN pending(amount.exc)
                 ELSE [invoices |-> Append(is1, NewInvoice(record, amount.value, t)),
                       commit |-> TRUE, exc |-> "none"]

----------------------------------------------------------------------------
(* The remote side and the inputs of the model *)

Spaces == {1}

Jane ==
    [Id |-> 5, FullName |-> <<"J">>, BillingName |-> <<>>, Email |-> <<"e">>,
     BankBranch |-> <<" ", "1", " ">>, BankAccount |-> <<" ", "4", " ">>]

MemberRecords ==
    { Jane,
      \* routing whitespace-only and account empty, other name and billing name
      [Jane EXCEPT !.FullName = <<"K">>, !.BillingName = <<"B">>, !.BankBranch = <<" ">>,
                   !.BankAccount = <<>>],
      \* another name and no Email key: KeyError after the first assignments
      Without([Jane EXCEPT !.FullName = <<"K">>], "Email"),
      \* Email and BillingName null
      [Jane EXCEPT !.Email = None, !.BillingName = None],
      \* another member, BillingName whitespace-only, account null
      [Jane EXCEPT !.Id = 6, !.BillingName = <<" ">>, !.BankBranch = <<"1">>,
                   !.BankAccount = None] }

Inv9 ==
    [Id |-> 9, CoworkerId |-> 5, BusinessId |-> 1,
     TotalAmount |-> <<"4", "2", ".", "5", "0">>]

InvoiceRecords ==
    { Inv9,
      \* another invoice, of another member
      [Inv9 EXCEPT !.Id = 10, !.CoworkerId = 6, !.TotalAmount = <<" ", "7">>],
      \* no TotalAmount key: KeyError after the lookups
      Without(Inv9, "TotalAmount"),
      \* TotalAmount is no number: ValueError
      [Inv9 EXCEPT !.TotalAmount = <<"x">>] }

StoredJane ==
    [nexudus_user_id |-> 5, fullname |-> <<"J">>, billing_name |-> <<"J">>,
     email |-> <<"e">>, routing_number |-> <<" ", "1", " ">>,
     account_number |-> <<" ", "4", " ">>, process_automatically |-> "True"]

MemberRows == <<StoredJane, [StoredJane EXCEPT !.process_automatically = "False"]>>

StoredInv9 ==
    [nexudus_invoice_id |-> 9, nexudus_user_id |-> 5, nexudus_space_id |-> 1,
     time_created |-> 0, amount |-> 1000, finalized |-> FALSE, txn_id |-> "None",
     txn_status |-> "Not processed", txn_statuscode |-> "None"]

InvoiceRows ==
    << StoredInv9,
       [StoredInv9 EXCEPT !.amount = 2000, !.finalized = TRUE, !.txn_id = "T1",
                          !.txn_status = "Approved", !.txn_statuscode = "A"] >>

(* The tables of at most n rows drawn from rows, duplicates allowed.  The   *)
(* reconcilers select rows by key, never by position, so one order of the  *)
(* rows stands for all.                                                    *)
TablesUpTo(rows, n) ==
    {<<>>} \cup
    UNION { { [i \in 1..len |-> rows[f[i]]] :
                f \in {g \in [1..len -> 1..Len(rows)] :
                          \A i \in 1..(len - 1) : g[i] <= g[i + 1]} } :
            len \in 1..n }

Stores(k) ==
    IF k = "member"
    THEN {[members |-> ms, invoices |-> <<>>] : ms \in TablesUpTo(MemberRows, MaxRows)}
    ELSE {st \in [members : TablesUpTo(MemberRows, MaxRows),
                  invoices : TablesUpTo(InvoiceRows, MaxRows)] :
            Len(st.members) + Len(st.invoices) <= MaxRows}

(* The remote collections of at most n records drawn from S, in any order: *)
(* a collection holds a record once (records of one Id may differ in their *)
(* fields).                                                                *)
FeedsUpTo(S, n) ==
    {s \in SeqsUpTo(S, n) : \A i, j \in 1..Len(s) : s[i] = s[j] => i = j}

Min(a, b) == IF a < b THEN a ELSE b

(* The response to the request for page p (1-based): the remote cuts the   *)
(* collection into pages of MaxBatch records.                              *)
Response(coll, p) ==
    [TotalItems |-> Len(coll),
     HasNextPage |-> p * MaxBatch < Len(coll),
     Records |-> SubSeq(coll, (p - 1) * MaxBatch + 1, Min(p * MaxBatch, Len(coll)))]

----------------------------------------------------------------------------
(* sync_member_table / sync_invoice_table: what each passes to sync_table *)

Payload(k) ==
    IF k = "member" THEN [Coworker_Active |-> "true", size |-> 100]
    ELSE [CoworkerInvoice_Paid |-> "false", size |-> 100]

BusinessVar(k) ==
    IF k = "member" THEN "Coworker_InvoicingBusiness" ELSE "CoworkerInvoice_Business"

UrlPart(k) == IF k = "member" THEN "spaces/coworkers" ELSE "billing/coworkerinvoices"

(* d[k] = v on a dict *)
SetItem(d, k, v) == [x \in DOMAIN d \cup {k} |-> IF x = k THEN v ELSE d[x]]

(* the params of the request get_records issues for page p, lines 50-57 *)
Params(payload, p) == SetItem(payload, "page", p)

(* as a loop that goes on until a page comes back empty *)
get_records_turn_until_empty(res, single, has_next) ==
    IF single /\ res.TotalItems # 1
    THEN [exc |-> "MultipleResultsFoundException", has_next_page |-> has_next,
          batches |-> <<>>]
    ELSE [exc |-> "none", has_next_page |-> res.Records # <<>>,
          batches |-> <<res.Records>>]

(* as line 62 with "> 1" for "!= 1" *)
get_records_turn_more_than_one(res, single, has_next) ==
    IF single /\ res.TotalItems > 1
    THEN [exc |-> "MultipleResultsFoundException", has_next_page |-> has_next,
          batches |-> <<>>]
    ELSE [exc |-> "none", has_next_page |-> res.HasNextPage, batches |-> <<res.Records>>]

(* get_records, lines 59-67, on the response res: the exception raised or *)
(* the batch yielded, and has_next_page afterwards.                        *)
get_records_turn(res, single, has_next) ==
    IF single /\ res.TotalItems # 1
    THEN [exc |-> "MultipleResultsFoundException", has_next_page |-> has_next,
          batches |-> <<>>]
    ELSE [exc |-> "none", has_next_page |-> res.HasNextPage, batches |-> <<res.Records>>]

NoResult == [state |-> "none", ok |-> FALSE, message |-> "None"]

Idle ==
    /\ members = membersC
    /\ invoices = invoicesC
    /\ current_page = 0
    /\ has_next_page = FALSE
    /\ record_list = <<>>
    /\ idx = 0
    /\ requests = <<>>
    /\ yielded = <<>>
    /\ handled = <<>>
    /\ start = [members |-> membersC, invoices |-> invoicesC]
    /\ ended = <<>>
    /\ now = 0
    /\ nexudus_invoice = [exc |-> "none", value |-> <<>>]
    /\ posts = <<>>
    /\ result = NoResult

Init ==
    /\ kind \in {"member", "invoice"}
    /\ nexudus_space_id \in Spaces
    \* add_or_overwrite_invoice never reads the configuration
    /\ PROCESS_AUTOMATICALLY \in (IF kind = "member" THEN {"True", "False"} ELSE {"True"})
    /\ remote \in FeedsUpTo(IF kind = "member" THEN MemberRecords ELSE InvoiceRecords,
                            MaxRecords)
    /\ \E st \in Stores(kind) : membersC = st.members /\ invoicesC = st.invoices
    /\ invoice_id = 0
    /\ pc = "idle"
    /\ Idle

(* How a run of sync_table ended: status is "done" when it returned, else  *)
(* the name of the exception that left it; before is the committed store   *)
(* when the run began, members and invoices the committed store it left.   *)
Ending(status, before, ms, is) ==
    [status |-> status, before |-> before, members |-> ms, invoices |-> is]

(* sync_table, lines 364 and 378-379, up to the start of get_records       *)
(* (lines 48-52): a new session, which sees the committed tables.          *)
SyncStart ==
    /\ pc \in {"idle", "done", "aborted"}
    /\ kind \in {"member", "invoice"}
    /\ Len(ended) < MaxRuns
    /\ members' = membersC
    /\ invoices' = invoicesC
    /\ start' = [members |-> membersC, invoices |-> invoicesC]
    /\ pc' = "fetch"
    /\ current_page' = 0
    /\ has_next_page' = TRUE
    /\ record_list' = <<>>
    /\ idx' = 0
    /\ requests' = <<>>
    /\ yielded' = <<>>
    /\ handled' = <<>>
    /\ now' = now + 1
    /\ UNCHANGED <<kind, nexudus_space_id, PROCESS_AUTOMATICALLY, remote, membersC,
                   invoicesC, ended, invoice_id, nexudus_invoice, posts, result>>

(* as sync_table without line 378 *)
SyncRequest_unscoped(page) ==
    [url |-> UrlPart(kind), params |-> Params(Payload(kind), page)]

(* the request get_records issues for a page, lines 378 and 55-57 *)
SyncRequest(page) ==
    [url |-> UrlPart(kind),
     params |-> Params(SetItem(Payload(kind), BusinessVar(kind), nexudus_space_id), page)]

(* get_records, lines 54-67, one turn of the loop with single = False,     *)
(* and process_batch handing the batch to callback.                        *)
Request ==
    /\ pc = "fetch"
    /\ has_next_page
    /\ LET page == current_page + 1
           turn == get_records_turn(Response(remote, page), FALSE, has_next_page)
       IN  /\ current_page' = page
           /\ requests' = Append(requests, SyncRequest(page))
           /\ has_next_page' = turn.has_next_page
           /\ yielded' = yielded \o turn.batches
           /\ record_list' = turn.batches[1]
           /\ idx' = 1
           /\ pc' = IF turn.batches[1] = <<>> THEN "fetch" ELSE "callback"
    /\ UNCHANGED <<kind, nexudus_space_id, PROCESS_AUTOMATICALLY, remote, members,
                   invoices, membersC, invoicesC, handled, start, ended, now, invoice_id,
                   nexudus_invoice, posts, result>>

(* lines 57-59: requests.get or r.json() raises; nothing catches it, so    *)
(* the run ends with the status RequestException                           *)
RequestFails ==
    /\ pc = "fetch"
    /\ has_next_page
    /\ current_page' = current_page + 1
    /\ requests' = Append(requests, SyncRequest(current_page + 1))
    /\ pc' = "aborted"
    /\ ended' = Append(ended, Ending("RequestException", start, membersC, invoicesC))
    /\ UNCHANGED <<kind, nexudus_space_id, PROCESS_AUTOMATICALLY, remote, members,
                   invoices, membersC, invoicesC, has_next_page, record_list, idx,
                   yielded, handled, start, now, invoice_id, nexudus_invoice, posts,
                   result>>

(* get_records ends (line 54 false), process_batch and sync_table return *)
Return ==
    /\ pc = "fetch"
    /\ ~has_next_page
    /\ pc' = "done"
    /\ ended' = Append(ended, Ending("done", start, membersC, invoicesC))
    /\ UNCHANGED <<kind, nexudus_space_id, PROCESS_AUTOMATICALLY, remote, members,
                   invoices, membersC, invoicesC, current_page, has_next_page,
                   record_list, idx, requests, yielded, handled, start, now, invoice_id,
                   nexudus_invoice, posts, result>>

(* as callback returning after the first record of a batch *)
AfterRecord_first_only(exc, gated, ms, is) ==
    /\ handled' = Append(handled,
                         [record |-> record_list[idx], exc |-> exc, gated |-> gated])
    /\ IF exc \in {"none", "KeyError"}
       THEN /\ idx' = idx + 1
            /\ pc' = "fetch"
            /\ ended' = ended
       ELSE /\ idx' = idx
            /\ pc' = "aborted"
            /\ ended' = Append(ended, Ending(exc, start, ms, is))

(* as callback without its except clause *)
AfterRecord_uncaught(exc, gated, ms, is) ==
    /\ handled' = Append(handled,
                         [record |-> record_list[idx], exc |-> exc, gated |-> gated])
    /\ IF exc = "none"
       THEN /\ idx' = idx + 1
            /\ pc' = IF idx = Len(record_list) THEN "fetch" ELSE "callback"
            /\ ended' = ended
       ELSE /\ idx' = idx
            /\ pc' = "aborted"
            /\ ended' = Append(ended, Ending(exc, start, ms, is))

(* callback, lines 366-372, one turn of its loop after sync_callback left  *)
(* with exc: KeyError is caught, anything else leaves sync_table.  gated   *)
(* notes whether an invoice record was dropped at the gate.                *)
AfterRecord(exc, gated, ms, is) ==
    /\ handled' = Append(handled,
                         [record |-> record_list[idx], exc |-> exc, gated |-> gated])
    /\ IF exc \in {"none", "KeyError"}
       THEN /\ idx' = idx + 1
            /\ pc' = IF idx = Len(record_list) THEN "fetch" ELSE "callback"
            /\ ended' = ended
       ELSE /\ idx' = idx
            /\ pc' = "aborted"
            /\ ended' = Append(ended, Ending(exc, start, ms, is))

CallbackMember ==
    /\ pc = "callback"
    /\ kind = "member"
    /\ LET out == add_or_overwrite_member(record_list[idx], members, PROCESS_AUTOMATICALLY)
       IN  /\ members' = out.members
           /\ membersC' = IF out.commit THEN out.members ELSE membersC
           /\ invoicesC' = IF out.commit THEN invoices ELSE invoicesC
           /\ AfterRecord(out.exc, FALSE, membersC', invoicesC')
    /\ UNCHANGED <<kind, nexudus_space_id, PROCESS_AUTOMATICALLY, remote, invoices,
                   current_page, has_next_page, record_list, requests, yielded, start,
                   now, invoice_id, nexudus_invoice, posts, result>>

CallbackInvoice ==
    /\ pc = "callback"
    /\ kind = "invoice"
    /\ LET record == record_list[idx]
           out == add_or_overwrite_invoice(record, members, invoices, now)
           gated == "CoworkerId" \in DOMAIN record /\ Gated(record, members)
       IN  /\ invoices' = out.invoices
           /\ invoicesC' = IF out.commit THEN out.invoices ELSE invoicesC
           /\ membersC' = IF out.commit THEN members ELSE membersC
           /\ AfterRecord(out.exc, gated, membersC', invoicesC')
    /\ UNCHANGED <<kind, nexudus_space_id, PROCESS_AUTOMATICALLY, remote, members,
                   current_page, has_next_page, record_list, requests, yielded, start,
                   now, invoice_id, nexudus_invoice, posts, result>>

Next ==
    \/ SyncStart
    \/ Request
    \/ RequestFails
    \/ Return
    \/ CallbackMember
    \/ CallbackInvoice

Spec == Init /\ [][Next]_vars

(* Sync runs for either of two tenants, from an empty store *)
Tenants == {1, 2}

InitTenants ==
    /\ kind \in {"member", "invoice"}
    /\ nexudus_space_id \in Tenants
    /\ PROCESS_AUTOMATICALLY = "True"
    /\ remote \in FeedsUpTo(IF kind = "member" THEN MemberRecords ELSE InvoiceRecords,
                            MaxRecords)
    /\ membersC = <<>>
    /\ invoicesC = <<>>
    /\ invoice_id = 0
    /\ pc = "idle"
    /\ Idle

SpecTenants == InitTenants /\ [][Next]_vars

----------------------------------------------------------------------------
(* mark_invoice_paid *)

InvoiceIds == {9, 10}

Codes == {"A1B2C3D4E5", "ZZZZZZZZZ9"}

(* what the remote may answer to the POST *)
PostResponses ==
    { [WasSuccessful |-> TRUE, Message |-> "None"],
      [WasSuccessful |-> FALSE, Message |-> "Invoice already paid"] }

InitPaid ==
    /\ kind = "paid"
    /\ nexudus_space_id \in Spaces
    /\ PROCESS_AUTOMATICALLY = "True"
    /\ remote \in SeqsUpTo(InvoiceRecords, MaxRecords)
    /\ membersC = <<>>
    /\ invoicesC = <<>>
    /\ invoice_id \in InvoiceIds
    /\ pc = "paid"
    /\ Idle

(* get_single, lines 138-139: next(g)[0] on the first turn of get_records *)
get_single(res) ==
    LET turn == get_records_turn(res, TRUE, TRUE)
    IN  IF turn.exc # "none" THEN [exc |-> turn.exc, batches |-> <<>>, value |-> <<>>]
        ELSE IF turn.batches[1] = <<>>
        THEN [exc |-> "IndexError", batches |-> turn.batches, value |-> <<>>]
        ELSE [exc |-> "none", batches |-> turn.batches, value |-> <<turn.batches[1][1]>>]

(* as mark_invoice_paid without its except clause *)
Caught_never(exc) == FALSE

(* line 174: the except clause of mark_invoice_paid *)
Caught(exc) == exc = "MultipleResultsFoundException"

(* mark_invoice_paid, lines 167-175 *)
MarkPaidFetch ==
    /\ pc = "paid"
    /\ LET get_payload == [CoworkerInvoice_Id |-> invoice_id]
           got == get_single(Response(remote, 1))
       IN  /\ current_page' = 1
           /\ requests' = Append(requests, [url |-> "billing/coworkerinvoices",
                                            params |-> Params(get_payload, 1)])
           /\ yielded' = yielded \o got.batches
           /\ nexudus_invoice' = [exc |-> got.exc, value |-> got.value]
           /\ IF got.exc = "none"
              THEN /\ pc' = "paid_create"
                   /\ result' = result
              ELSE /\ pc' = "paid_done"
                   /\ result' = IF Caught(got.exc)
                                THEN [state |-> "returned", ok |-> FALSE, message |-> ""]
                                ELSE [state |-> "raised", ok |-> FALSE, message |-> got.exc]
    /\ UNCHANGED <<kind, nexudus_space_id, PROCESS_AUTOMATICALLY, remote, members,
                   invoices, membersC, invoicesC, has_next_page, record_list, idx,
                   handled, start, ended, now, invoice_id, posts>>

(* line 172: the GET request or r.json() raises; only                      *)
(* MultipleResultsFoundException is caught                                 *)
MarkPaidFetchFails ==
    /\ pc = "paid"
    /\ current_page' = 1
    /\ requests' = Append(requests,
                          [url |-> "billing/coworkerinvoices",
                           params |-> Params([CoworkerInvoice_Id |-> invoice_id], 1)])
    /\ pc' = "paid_done"
    /\ nexudus_invoice' = [exc |-> "ConnectionError", value |-> <<>>]
    /\ result' = [state |-> "raised", ok |-> FALSE, message |-> "ConnectionError"]
    /\ UNCHANGED <<kind, nexudus_space_id, PROCESS_AUTOMATICALLY, remote, members,
                   invoices, membersC, invoicesC, has_next_page, record_list, idx,
                   yielded, handled, start, ended, now, invoice_id, posts>>

CreateKeys == {"CoworkerId", "BusinessId", "TotalAmount"}

(* mark_invoice_paid, lines 183-210, with create_record (lines 77-82) *)
MarkPaidCreate ==
    /\ pc = "paid_create"
    /\ pc' = "paid_done"
    /\ LET inv == nexudus_invoice.value[1]
       IN  IF ~(CreateKeys \subseteq DOMAIN inv)
           THEN /\ result' = [state |-> "raised", ok |-> FALSE, message |-> "KeyError"]
                /\ posts' = posts
           ELSE \E code \in Codes, r \in PostResponses :
                    /\ posts' = Append(posts,
                            [url |-> "billing/coworkerledgerentries",
                             data |-> [CoworkerInvoiceId |-> invoice_id,
                                       CoworkerId |-> inv.CoworkerId,
                                       BusinessId |-> inv.BusinessId,
                                       Code |-> code,
                                       Credit |-> inv.TotalAmount,
                                       Description |-> "Automatic USAePay payment"]])
                    /\ result' =
                         IF r.WasSuccessful
                         THEN [state |-> "returned", ok |-> TRUE,
                               message |-> "Successfully updated invoice in Nexudus."]
                         ELSE [state |-> "returned", ok |-> FALSE, message |-> r.Message]
    /\ UNCHANGED <<kind, nexudus_space_id, PROCESS_AUTOMATICALLY, remote, members,
                   invoices, membersC, invoicesC, current_page, has_next_page,
                   record_list, idx, requests, yielded, handled, start, ended, now,
                   invoice_id, nexudus_invoice>>

NextPaid ==
    \/ MarkPaidFetch
    \/ MarkPaidFetchFails
    \/ MarkPaidCreate

SpecPaid == InitPaid /\ [][NextPaid]_vars

----------------------------------------------------------------------------
(* Properties *)

Rows(rows) == {rows[i] : i \in 1..Len(rows)}

Count(rows, col, key) == Cardinality({i \in 1..Len(rows) : rows[i][col] = key})

Only(rows, col, key) == rows[CHOOSE i \in 1..Len(rows) : rows[i][col] = key]

UniqueKeys(rows, col) ==
    \A i, j \in 1..Len(rows) : rows[i][col] = rows[j][col] => i = j

(* The table a sync of this kind fills, as committed, and its key column *)
Table == IF kind = "member" THEN membersC ELSE invoicesC

StartTable == IF kind = "member" THEN start.members ELSE start.invoices

KeyCol == IF kind = "member" THEN "nexudus_user_id" ELSE "nexudus_invoice_id"

(* a str with a character other than whitespace *)
NonBlank(v) == v # None /\ \E i \in 1..Len(v) : v[i] # " "

(* C1, as claimed: after a sync run completes normally, whatever the store *)
(* held before (duplicates included), the table the run fills holds at     *)
(* most one row per key.                                                   *)
C1_AllKeysUnique ==
    pc = "done" => UniqueKeys(Table, KeyCol)

(* C1, amended: after a sync run completes normally, for every record of   *)
(* the feed that the reconciler processed to its end (no missing field,    *)
(* and for an invoice not dropped at the gate), the table holds at most    *)
(* one row with that record's Id, even if it held several before the run.  *)
C1_ReconciledKeysUnique ==
    pc = "done" =>
        \A n \in 1..Len(handled) :
            (handled[n].exc = "none" /\ ~handled[n].gated)
                => Count(Table, KeyCol, handled[n].record.Id) <= 1

(* C1, witness: a completed run reconciled a record whose key had two or   *)
(* more rows when the run began, and one row is left.                      *)
C1_Witness ==
    /\ pc = "done"
    /\ \E n \in 1..Len(handled) :
          /\ handled[n].exc = "none"
          /\ ~handled[n].gated
          /\ Count(StartTable, KeyCol, handled[n].record.Id) >= 2
          /\ Count(Table, KeyCol, handled[n].record.Id) = 1

(* C2: when two sync runs in a row against the same remote collection both *)
(* complete, the committed store after the second equals the store after   *)
(* the first, row for row and field for field (creation times included).   *)
C2_Idempotent ==
    \A n \in 1..(Len(ended) - 1) :
        (ended[n].status = "done" /\ ended[n + 1].status = "done")
            => /\ ended[n + 1].members = ended[n].members
               /\ ended[n + 1].invoices = ended[n].invoices

(* C2, witness: two completed runs in a row, the first of which changed    *)
(* the store and reconciled at least one record.                           *)
C2_Witness ==
    /\ Len(ended) >= 2
    /\ ended[1].status = "done"
    /\ ended[2].status = "done"
    /\ handled # <<>>
    /\ \/ ended[1].members # ended[1].before.members
       \/ ended[1].invoices # ended[1].before.invoices

(* the Member rows of the owner of the invoice record about to be          *)
(* reconciled                                                              *)
Reconciling(k) == pc = "callback" /\ kind = k

Owners ==
    {i \in 1..Len(members) : members[i].nexudus_user_id = record_list[idx].CoworkerId}

(* C3, as claimed: reconciling an invoice record whose owning Member has   *)
(* auto_process = false in the local store creates no Invoice row.         *)
C3_GateAnyRows ==
    [][ ( /\ Reconciling("invoice")
          /\ "CoworkerId" \in DOMAIN record_list[idx]
          /\ Owners # {}
          /\ \A i \in Owners : members[i].process_automatically = "False" )
        => Rows(invoices') \subseteq Rows(invoices) ]_vars

(* C3, amended: reconciling an invoice record whose owning Member is       *)
(* stored as exactly one row, with auto_process = false, creates no        *)
(* Invoice row and has no other effect on the store.                       *)
C3_GateOneRow ==
    [][ ( /\ Reconciling("invoice")
          /\ "CoworkerId" \in DOMAIN record_list[idx]
          /\ Cardinality(Owners) = 1
          /\ \A i \in Owners : members[i].process_automatically = "False" )
        => /\ invoices' = invoices
           /\ invoicesC' = invoicesC
           /\ members' = members
           /\ membersC' = membersC ]_vars

(* C3, witness: the record just reconciled has every field, no Invoice row *)
(* with its Id exists, and its owner is one Member row with auto_process   *)
(* false.                                                                  *)
C3_Witness ==
    /\ kind = "invoice"
    /\ handled # <<>>
    /\ LET h == handled[Len(handled)]
       IN  /\ h.gated
           /\ DOMAIN h.record = DOMAIN Inv9
           /\ float(h.record.TotalAmount).exc = "none"
           /\ Count(members, "nexudus_user_id", h.record.CoworkerId) = 1
           /\ Only(members, "nexudus_user_id", h.record.CoworkerId).process_automatically
                = "False"
           /\ Count(invoices, "nexudus_invoice_id", h.record.Id) = 0

(* the Member rows, before and after the step, with the Id of the member   *)
(* record about to be reconciled                                           *)
Stored == {i \in 1..Len(members) : members[i].nexudus_user_id = record_list[idx].Id}

StoredAfter ==
    {j \in 1..Len(members') : members'[j].nexudus_user_id = record_list[idx].Id}

StoredAutoWithBank ==
    /\ Stored # {}
    /\ \A i \in Stored :
          /\ members[i].process_automatically = "True"
          /\ NonBlank(members[i].routing_number)
          /\ NonBlank(members[i].account_number)

(* the member record has every field and a str Email: the reconciler      *)
(* reaches its commit                                                      *)
Complete == DOMAIN record_list[idx] = DOMAIN Jane /\ record_list[idx].Email # None

BankUnchanged ==
    /\ Complete
    /\ \A i \in Stored :
          /\ record_list[idx].BankBranch = members[i].routing_number
          /\ record_list[idx].BankAccount = members[i].account_number

BankBlank ==
    /\ Complete
    /\ ~NonBlank(record_list[idx].BankBranch)
    /\ ~NonBlank(record_list[idx].BankAccount)

MergePolicy ==
    /\ BankUnchanged =>
          /\ StoredAfter # {}
          /\ \A j \in StoredAfter : members'[j].process_automatically = "True"
          /\ membersC' = members'
    /\ BankBlank =>
          /\ StoredAfter # {}
          /\ \A j \in StoredAfter : members'[j].process_automatically = "False"
          /\ membersC' = members'

(* C4, as claimed: for a Member stored with auto_process = true and        *)
(* non-blank bank routing and account, reconciling a record with the same  *)
(* bank fields leaves auto_process = true, and reconciling a record with   *)
(* blank bank fields sets auto_process = false.                            *)
C4_MergeAnyRows ==
    [][ ( /\ Reconciling("member")
          /\ "Id" \in DOMAIN record_list[idx]
          /\ StoredAutoWithBank )
        => MergePolicy ]_vars

(* C4, amended: the same for a Member stored as exactly one row. *)
C4_MergeOneRow ==
    [][ ( /\ Reconciling("member")
          /\ "Id" \in DOMAIN record_list[idx]
          /\ Cardinality(Stored) = 1
          /\ StoredAutoWithBank )
        => MergePolicy ]_vars

(* C4, witness: a run that began with one row for the member, with         *)
(* auto_process true and bank fields, reconciled first a record with those *)
(* bank fields and then a record with blank ones; the row now has          *)
(* auto_process false.                                                     *)
C4_Witness ==
    /\ kind = "member"
    /\ Len(handled) = 2
    /\ Count(start.members, "nexudus_user_id", 5) = 1
    /\ LET was == Only(start.members, "nexudus_user_id", 5)
           first == handled[1].record
           second == handled[2].record
       IN  /\ was.process_automatically = "True"
           /\ NonBlank(was.routing_number) /\ NonBlank(was.account_number)
           /\ handled[1].exc = "none" /\ handled[2].exc = "none"
           /\ first.Id = 5 /\ second.Id = 5
           /\ first.BankBranch = was.routing_number
           /\ first.BankAccount = was.account_number
           /\ ~NonBlank(second.BankBranch) /\ ~NonBlank(second.BankAccount)
    /\ Count(members, "nexudus_user_id", 5) = 1
    /\ Only(members, "nexudus_user_id", 5).process_automatically = "False"

(* C5: when the Member reconciler processes a record with every field      *)
(* whose Id has no local row, one row with that Id exists afterwards and   *)
(* its auto_process is the configured default if bank routing and account  *)
(* both have a non-whitespace character, and false if either is null,      *)
(* empty or whitespace-only; unless the call was left by an exception, the *)
(* row is committed.                                                       *)
C5_CreationDefault ==
    [][ ( /\ Reconciling("member")
          /\ DOMAIN record_list[idx] = DOMAIN Jane
          /\ Stored = {} )
        => /\ Cardinality(StoredAfter) = 1
           /\ \A j \in StoredAfter :
                 members'[j].process_automatically =
                    IF NonBlank(record_list[idx].BankBranch)
                       /\ NonBlank(record_list[idx].BankAccount)
                    THEN PROCESS_AUTOMATICALLY
                    ELSE "False"
           /\ record_list[idx].Email # None => membersC' = members' ]_vars

(* C5, witness: with the default true, a run that began with no Member row *)
(* created one member with bank fields (auto_process true) and one with a  *)
(* null account (auto_process false).                                      *)
C5_Witness ==
    /\ kind = "member"
    /\ PROCESS_AUTOMATICALLY = "True"
    /\ start.members = <<>>
    /\ Len(handled) = 2
    /\ handled[1].exc = "none" /\ handled[2].exc = "none"
    /\ Len(membersC) = 2
    /\ \E a, b \in 1..2 :
          /\ handled[a].record.Id = 5
          /\ NonBlank(handled[a].record.BankBranch)
          /\ NonBlank(handled[a].record.BankAccount)
          /\ Only(membersC, "nexudus_user_id", 5).process_automatically = "True"
          /\ handled[b].record.Id = 6
          /\ handled[b].record.BankAccount = None
          /\ Only(membersC, "nexudus_user_id", 6).process_automatically = "False"

(* the Invoice rows with the Id of the invoice record about to be          *)
(* reconciled                                                              *)
Existing ==
    {i \in 1..Len(invoices) : invoices[i].nexudus_invoice_id = record_list[idx].Id}

OtherAmount ==
    /\ {"Id", "TotalAmount"} \subseteq DOMAIN record_list[idx]
    /\ float(record_list[idx].TotalAmount).exc = "none"
    /\ \E i \in Existing : invoices[i].amount # float(record_list[idx].TotalAmount).value

LastPage ==
    CHOOSE n \in 1..(Len(remote) + 1) :
        /\ ~Response(remote, n).HasNextPage
        /\ \A m \in 1..(n - 1) : Response(remote, m).HasNextPage

(* C7: with N the first page whose response has the continuation flag      *)
(* false, the requests of a run carry the page numbers 1, 2, ... in order  *)
(* and never a page after N, the k-th batch yielded is the batch of page   *)
(* k, and a run that consumed the whole sequence issued exactly N requests *)
(* and was yielded exactly N batches.                                      *)
C7_Pagination ==
    /\ Len(requests) <= LastPage
    /\ \A k \in 1..Len(requests) : requests[k].params.page = k
    /\ Len(yielded) <= Len(requests)
    /\ \A k \in 1..Len(yielded) : yielded[k] = Response(remote, k).Records
    /\ pc = "done" => (Len(requests) = LastPage /\ Len(yielded) = LastPage)

(* C7, witness: a run over two or more pages has consumed the sequence. *)
C7_Witness ==
    /\ pc = "done"
    /\ LastPage >= 2
    /\ Len(yielded) = LastPage
    /\ yielded[LastPage] # <<>>

(* C9: the records passed to the reconciler are the records of the feed in *)
(* arrival order, none skipped; a missing-field failure is followed by the *)
(* next record, so a run that ends normally has passed every record of the *)
(* feed; a run is aborted only by a failed page request or by a failure of *)
(* the reconciler other than a missing field, which is then the last       *)
(* record it was passed; and after an abort nothing more is requested or   *)
(* reconciled in that run.                                                 *)
C9_Isolation ==
    /\ [](/\ Len(handled) <= Len(remote)
          /\ \A n \in 1..Len(handled) : handled[n].record = remote[n]
          /\ \A n \in 1..(Len(handled) - 1) : handled[n].exc \in {"none", "KeyError"}
          /\ pc = "done" => Len(handled) = Len(remote)
          /\ pc = "aborted" <=>
                \/ pc # "done" /\ Len(requests) > Len(yielded)
                \/ /\ handled # <<>>
                   /\ handled[Len(handled)].exc \notin {"none", "KeyError"})
    /\ [][pc = "aborted" =>
            /\ handled' = <<>>
            /\ requests' = <<>>
            /\ membersC' = membersC
            /\ invoicesC' = invoicesC]_vars

(* C9, witness: a run ended normally after a missing-field failure on the  *)
(* first record, which was followed by a record of the same batch and by a *)
(* record of a later page.                                                 *)
C9_Witness ==
    /\ pc = "done"
    /\ Len(handled) >= 3
    /\ handled[1].exc = "KeyError"
    /\ Len(yielded) >= 2
    /\ Len(yielded[1]) >= 2
    /\ Len(yielded[2]) >= 1

(* C8: when the single-result fetch got a response, then if the response   *)
(* reports a total item count other than 1 the fetch failed with the       *)
(* multiple-results condition, no batch was yielded and no record          *)
(* returned, and if it reports exactly 1 the fetch returned the first      *)
(* record of the first batch; either way after one request, for page 1.    *)
C8_SingleResult ==
    (pc # "paid" /\ nexudus_invoice.exc # "ConnectionError") =>
        /\ Len(requests) = 1
        /\ requests[1].params.page = 1
        /\ IF Response(remote, 1).TotalItems # 1
           THEN /\ nexudus_invoice.exc = "MultipleResultsFoundException"
                /\ nexudus_invoice.value = <<>>
                /\ yielded = <<>>
           ELSE /\ nexudus_invoice.exc = "none"
                /\ yielded = <<Response(remote, 1).Records>>
                /\ nexudus_invoice.value = <<yielded[1][1]>>

(* C8, witness: a single-result fetch against a total item count of 2      *)
(* failed.                                                                 *)
C8_Witness ==
    /\ kind = "paid"
    /\ pc = "paid_done"
    /\ Response(remote, 1).TotalItems = 2
    /\ nexudus_invoice.exc = "MultipleResultsFoundException"

(* C10: when the fetch of mark_invoice_paid fails with the                 *)
(* multiple-results condition the call returns a pair whose first          *)
(* component is False and no POST is issued; and a POST is issued only     *)
(* after a fetch that returned a record, to a response whose total item    *)
(* count was 1.                                                            *)
C10_MarkPaidFailure ==
    /\ nexudus_invoice.exc = "MultipleResultsFoundException" =>
          /\ pc = "paid_done"
          /\ result.state = "returned"
          /\ ~result.ok
          /\ posts = <<>>
    /\ posts # <<>> =>
          /\ Len(posts) = 1
          /\ nexudus_invoice.exc = "none"
          /\ Response(remote, 1).TotalItems = 1
          /\ posts[1].data.CoworkerInvoiceId = invoice_id

(* C10, witness: mark_invoice_paid has returned the failure pair after a   *)
(* fetch that found no item.                                               *)
C10_Witness ==
    /\ kind = "paid"
    /\ pc = "paid_done"
    /\ Response(remote, 1).TotalItems = 0
    /\ nexudus_invoice.exc = "MultipleResultsFoundException"
    /\ result = [state |-> "returned", ok |-> FALSE, message |-> ""]
    /\ posts = <<>>

(* sync_table on the records recs with no failed request: callback (lines  *)
(* 366-372) over every record in order, in one session whose view is ms,   *)
(* is and whose committed tables are mc, ic.  The committed store the run  *)
(* leaves, and "done" or the exception that ended it.                      *)
RECURSIVE Uninterrupted(_, _, _, _, _)
Uninterrupted(recs, ms, is, mc, ic) ==
    IF recs = <<>> THEN [status |-> "done", members |-> mc, invoices |-> ic]
    ELSE LET out == IF kind = "member"
                    THEN [invoices |-> is] @@
                         add_or_overwrite_member(Head(recs), ms, PROCESS_AUTOMATICALLY)
                    ELSE [members |-> ms] @@
                         add_or_overwrite_invoice(Head(recs), ms, is, now)
             mc1 == IF out.commit THEN out.members ELSE mc
             ic1 == IF out.commit THEN out.invoices ELSE ic
         IN  IF out.exc \in {"none", "KeyError"}
             THEN Uninterrupted(Tail(recs), out.members, out.invoices, mc1, ic1)
             ELSE [status |-> out.exc, members |-> mc1, invoices |-> ic1]

(* a table of invoices with the creation times blanked *)
Untimed(rows) == [i \in 1..Len(rows) |-> [rows[i] EXCEPT !.time_created = 0]]

(* the run before the last was ended by a failed page request and the last *)
(* run, from the store it left and against the same feed, has returned     *)
RerunDone ==
    /\ pc = "done"
    /\ Len(ended) >= 2
    /\ ended[Len(ended) - 1].status = "RequestException"

FirstStore == ended[Len(ended) - 1].before

AsUninterrupted ==
    LET full == Uninterrupted(remote, FirstStore.members, FirstStore.invoices,
                              FirstStore.members, FirstStore.invoices)
    IN  /\ full.status = "done"
        /\ membersC = full.members
        /\ Untimed(invoicesC) = Untimed(full.invoices)

(* C11, as claimed: when a run aborted by a failed page request is         *)
(* followed by a run to completion against the same feed, the committed    *)
(* store equals, creation times aside, the store of one uninterrupted run  *)
(* from the initial store, and holds at most one row per key.              *)
C11_RerunAllKeys ==
    RerunDone => (AsUninterrupted /\ UniqueKeys(Table, KeyCol))

(* C11, amended: the same, with at most one row for every key that the     *)
(* rerun reconciled to its end (no missing field, not dropped at the       *)
(* gate).                                                                  *)
C11_RerunReconciledKeys ==
    RerunDone =>
        /\ AsUninterrupted
        /\ \A n \in 1..Len(handled) :
              (handled[n].exc = "none" /\ ~handled[n].gated)
                  => Count(Table, KeyCol, handled[n].record.Id) <= 1

(* C11, witness: the first run changed the store on page 1 and was aborted *)
(* by the failed request of page 2; the rerun has returned and changed the *)
(* store again.                                                            *)
C11_Witness ==
    /\ RerunDone
    /\ Len(ended) = 2
    /\ ended[1].members # ended[1].before.members
    /\ ended[2].before = [members |-> ended[1].members, invoices |-> ended[1].invoices]
    /\ ended[2].members # ended[2].before.members
    /\ Len(handled) > MaxBatch

(* the tenant-scoping variable and the entity filter of each kind of sync *)
TenantVar ==
    IF kind = "member" THEN "Coworker_InvoicingBusiness" ELSE "CoworkerInvoice_Business"

EntityFilter ==
    IF kind = "member" THEN [var |-> "Coworker_Active", value |-> "true"]
    ELSE [var |-> "CoworkerInvoice_Paid", value |-> "false"]

(* C12: every page request of a sync run for tenant T carries the          *)
(* tenant-scoping variable of its entity kind set to T, the entity filter, *)
(* the page size 100 and its 1-based page number, and nothing else: no     *)
(* request lacks the tenant variable or carries another tenant's id.       *)
C12_TenantScoped ==
    \A k \in 1..Len(requests) :
        LET p == requests[k].params
        IN  /\ DOMAIN p = {TenantVar, EntityFilter.var, "size", "page"}
            /\ p[TenantVar] = nexudus_space_id
            /\ p[EntityFilter.var] = EntityFilter.value
            /\ p.size = 100
            /\ p.page = k

(* C12, witness: an invoice sync for tenant 2 has requested page 2. *)
C12_Witness ==
    /\ kind = "invoice"
    /\ nexudus_space_id = 2
    /\ Len(requests) = 2
    /\ requests[2].params.page = 2
    /\ requests[1].params.CoworkerInvoice_Business = 2

(* the record the reconciler was passed last in this run, and how it left *)
Last == handled[Len(handled)]

Surrounded(v) == NonBlank(v) /\ strip(v) # v

(* a fresh sync of a complete record with whitespace around its bank       *)
(* routing and account and an empty billing name                           *)
FreshSurrounded ==
    /\ Reconciling("member")
    /\ Complete
    /\ Stored = {}
    /\ Surrounded(record_list[idx].BankBranch)
    /\ Surrounded(record_list[idx].BankAccount)
    /\ record_list[idx].BillingName = <<>>

(* one committed row for the record, with the routing and account given,  *)
(* the full name for billing name and the configured default               *)
StoredWithBank(routing, account) ==
    /\ Cardinality(StoredAfter) = 1
    /\ \A j \in StoredAfter :
          /\ members'[j].routing_number = routing
          /\ members'[j].account_number = account
          /\ members'[j].billing_name = record_list[idx].FullName
          /\ members'[j].process_automatically = PROCESS_AUTOMATICALLY
    /\ membersC' = members'

(* C14, as claimed: when a record carries bank routing and account with    *)
(* surrounding whitespace, the Member row stored holds the trimmed values, *)
(* the full name for billing name and auto_process equal to the configured *)
(* default.                                                                *)
C14_StoredTrimmed ==
    [][ FreshSurrounded =>
          StoredWithBank(strip(record_list[idx].BankBranch),
                         strip(record_list[idx].BankAccount)) ]_vars

(* C14, amended: the Member row stored holds the routing and account as    *)
(* they came, whitespace included (trimming serves only the test whether   *)
(* they are populated), the full name for billing name and auto_process    *)
(* equal to the configured default.                                        *)
C14_StoredAsReceived ==
    [][ FreshSurrounded =>
          StoredWithBank(record_list[idx].BankBranch,
                         record_list[idx].BankAccount) ]_vars

(* C14, witness: with the default true, a run from an empty store has      *)
(* created the row of a record with routing " 1 " and account " 4 ".       *)
C14_Witness ==
    /\ kind = "member"
    /\ PROCESS_AUTOMATICALLY = "True"
    /\ start.members = <<>>
    /\ Len(handled) = 1
    /\ Last.record = Jane
    /\ Last.exc = "none"
    /\ membersC = <<[StoredJane EXCEPT !.routing_number = <<" ", "1", " ">>,
                                       !.account_number = <<" ", "4", " ">>,
                                       !.process_automatically = "True"]>>

(* the rows of the Member table with another key than k *)
OtherMembers(rows, k) == SelectSeq(rows, LAMBDA r : r.nexudus_user_id # k)

(* C15: when two or more Member rows have the Id of the record being       *)
(* reconciled, and the record has every field, all of them are deleted and *)
(* the reconciler proceeds as for a Member not found: afterwards exactly   *)
(* one row with that Id exists, its descriptive fields are the record's,   *)
(* and its auto_process is the configured default when bank routing and    *)
(* account are populated and false otherwise, whatever the deleted rows    *)
(* held; rows of other keys are untouched; unless the call was left by an  *)
(* exception, the result is committed.                                     *)
C15_HealDuplicates ==
    [][ ( /\ Reconciling("member")
          /\ DOMAIN record_list[idx] = DOMAIN Jane
          /\ Cardinality(Stored) >= 2 )
        => LET r == record_list[idx]
           IN  /\ Cardinality(StoredAfter) = 1
               /\ \A j \in StoredAfter :
                     /\ members'[j].fullname = r.FullName
                     /\ members'[j].email = r.Email
                     /\ members'[j].routing_number = r.BankBranch
                     /\ members'[j].account_number = r.BankAccount
                     /\ members'[j].billing_name =
                          IF r.BillingName \in {None, <<>>} THEN r.FullName
                          ELSE r.BillingName
                     /\ members'[j].process_automatically =
                          IF NonBlank(r.BankBranch) /\ NonBlank(r.BankAccount)
                          THEN PROCESS_AUTOMATICALLY
                          ELSE "False"
               /\ OtherMembers(members', r.Id) = OtherMembers(members, r.Id)
               /\ r.Email # None => membersC' = members' ]_vars

(* C15, witness: with the default true, a run that began with two rows of  *)
(* key 5, both with auto_process false, has reconciled a record with bank  *)
(* fields: one row of key 5 is committed, with auto_process true.          *)
C15_Witness ==
    /\ kind = "member"
    /\ PROCESS_AUTOMATICALLY = "True"
    /\ Len(start.members) = 2
    /\ \A i \in 1..2 : /\ start.members[i].nexudus_user_id = 5
                       /\ start.members[i].process_automatically = "False"
    /\ Len(handled) = 1
    /\ Last.record = Jane
    /\ Last.exc = "none"
    /\ Len(membersC) = 1
    /\ membersC[1].nexudus_user_id = 5
    /\ membersC[1].process_automatically = "True"

(* the invoice record about to be reconciled has every field and an        *)
(* amount that is a number                                                 *)
ValidInvoice ==
    /\ DOMAIN record_list[idx] = DOMAIN Inv9
    /\ float(record_list[idx].TotalAmount).exc = "none"

ExistingAfter ==
    {j \in 1..Len(invoices') : invoices'[j].nexudus_invoice_id = record_list[idx].Id}

(* C16: the Invoice reconciler never adds, deletes or modifies a Member    *)
(* row, in the session or as committed, whatever the record and the store; *)
(* and when the lookup of the owning Member reports multiple matches it    *)
(* goes on to the Invoice lookup and creation: for a record with every     *)
(* field and a numeric amount, one Invoice row with the record's Id exists *)
(* afterwards, committed, and it is a new row unless exactly one existed.  *)
C16_MembersUntouched ==
    [][ Reconciling("invoice")
        => /\ members' = members
           /\ membersC' = membersC
           /\ ( /\ "CoworkerId" \in DOMAIN record_list[idx]
                /\ Cardinality(Owners) >= 2
                /\ ValidInvoice )
              => /\ Cardinality(ExistingAfter) = 1
                 /\ invoicesC' = invoices'
                 /\ Cardinality(Existing) # 1 =>
                       \A j \in ExistingAfter :
                           invoices'[j] =
                               NewInvoice(record_list[idx],
                                          float(record_list[idx].TotalAmount).value, now)
      ]_vars

(* C16, witness: with two Member rows for the owner, both with             *)
(* auto_process false, and no Invoice row, a record has been reconciled:   *)
(* the Invoice row is committed and the Member rows are as they were.      *)
C16_Witness ==
    /\ kind = "invoice"
    /\ Len(handled) = 1
    /\ Last.record = Inv9
    /\ Last.exc = "none"
    /\ start.invoices = <<>>
    /\ Len(start.members) = 2
    /\ \A i \in 1..2 : /\ start.members[i].nexudus_user_id = 5
                       /\ start.members[i].process_automatically = "False"
    /\ membersC = start.members
    /\ Len(invoicesC) = 1
    /\ invoicesC[1].nexudus_invoice_id = 9

(* the owning Member is absent, or stored as one row with auto_process     *)
(* true                                                                    *)
PassesGate ==
    \/ Owners = {}
    \/ /\ Cardinality(Owners) = 1
       /\ \A i \in Owners : members[i].process_automatically = "True"

(* C17: when the Invoice reconciler processes a record with every field    *)
(* and a numeric TotalAmount that passes the gate (owner absent, or one    *)
(* row with auto_process true) and no Invoice row has its Id, exactly one  *)
(* row is added and committed: remote_invoice_id = Id, owner id =          *)
(* CoworkerId, tenant id = BusinessId, amount = TotalAmount as a number,   *)
(* created now, finalized false, no transaction id, transaction status     *)
(* "Not processed".                                                        *)
C17_InvoiceCreated ==
    [][ ( /\ Reconciling("invoice")
          /\ ValidInvoice
          /\ PassesGate
          /\ Existing = {} )
        => LET r == record_list[idx]
           IN  /\ invoices' =
                    Append(invoices,
                           [nexudus_invoice_id |-> r.Id,
                            nexudus_user_id |-> r.CoworkerId,
                            nexudus_space_id |-> r.BusinessId,
                            time_created |-> now,
                            amount |-> float(r.TotalAmount).value,
                            finalized |-> FALSE,
                            txn_id |-> "None",
                            txn_status |-> "Not processed",
                            txn_statuscode |-> "None"])
               /\ invoicesC' = invoices' ]_vars

(* C17, witness: the record {Id 9, CoworkerId 5, BusinessId 1, TotalAmount *)
(* "42.50"} has been reconciled with its owner stored with auto_process    *)
(* true and no Invoice row: one row is committed, with amount 42.50.       *)
C17_Witness ==
    /\ kind = "invoice"
    /\ Len(handled) = 1
    /\ Last.record = Inv9
    /\ Last.exc = "none"
    /\ start.members = <<StoredJane>>
    /\ start.invoices = <<>>
    /\ Len(invoicesC) = 1
    /\ invoicesC[1].nexudus_invoice_id = 9
    /\ invoicesC[1].nexudus_user_id = 5
    /\ invoicesC[1].nexudus_space_id = 1
    /\ invoicesC[1].amount = 4250
    /\ ~invoicesC[1].finalized
    /\ invoicesC[1].txn_status = "Not processed"

(* the records of the batches bs, in order *)
RECURSIVE Flatten(_)
Flatten(bs) == IF bs = <<>> THEN <<>> ELSE Head(bs) \o Flatten(Tail(bs))

(* C18: in a sync run the records passed to the reconciler are the records *)
(* of the batches fetched, in page order and then in order within the      *)
(* page, each once; when the request for page k + 1 has been issued every  *)
(* record of pages 1..k has been passed and the reconciler has left it, so *)
(* only the last batch fetched can hold records not yet processed, and it  *)
(* is the batch in flight; a run that returned has passed every record.    *)
C18_OrderedOneBatch ==
    kind \in {"member", "invoice"} =>
        /\ Len(handled) <= Len(Flatten(yielded))
        /\ \A n \in 1..Len(handled) : handled[n].record = Flatten(yielded)[n]
        /\ \A k \in 1..(Len(requests) - 1) :
              Len(handled) >= Len(Flatten(SubSeq(yielded, 1, k)))
        /\ yielded # <<>> =>
              /\ record_list = yielded[Len(yielded)]
              /\ Len(handled) >= Len(Flatten(SubSeq(yielded, 1, Len(yielded) - 1)))
        /\ pc = "callback" =>
              Len(handled) = Len(Flatten(SubSeq(yielded, 1, Len(yielded) - 1))) + idx - 1
        /\ pc = "done" => Len(handled) = Len(Flatten(yielded))

(* C18, witness: page 2 has just been requested, after both records of     *)
(* page 1 were processed, and none of its records has been processed yet.  *)
C18_Witness ==
    /\ pc = "callback"
    /\ Len(requests) = 2
    /\ Len(yielded) = 2
    /\ Len(yielded[1]) = 2
    /\ Len(handled) = 2
    /\ idx = 1
    /\ record_list = yielded[2]

(* the records of this run that did not fail with a missing field, in      *)
(* order                                                                   *)
RECURSIVE NotSkipped(_)
NotSkipped(hs) ==
    IF hs = <<>> THEN <<>>
    ELSE (IF Head(hs).exc = "KeyError" THEN <<>> ELSE <<Head(hs).record>>)
         \o NotSkipped(Tail(hs))

(* C19, as claimed: a record whose reconciliation fails with a missing     *)
(* field has no effect on the store: when a sync run has returned, the     *)
(* committed Member and Invoice tables are those the run would have left   *)
(* had the feed not held the records that failed (no row created, deleted  *)
(* or modified on their behalf), whether or not later records were         *)
(* committed.                                                              *)
C19_SkippedNoEffect ==
    pc = "done" =>
        LET without == Uninterrupted(NotSkipped(handled), start.members, start.invoices,
                                     start.members, start.invoices)
        IN  /\ without.status = "done"
            /\ membersC = without.members
            /\ invoicesC = without.invoices

(* C19, the failure reached: a Member sync that began with one row of Id 5 *)
(* named J has returned after a record of Id 5 named K without Email       *)
(* failed and a later record of Id 6 was committed; the row of Id 5 is     *)
(* committed with the name K, its other fields as they were.               *)
C19_Witness ==
    /\ pc = "done"
    /\ kind = "member"
    /\ start.members = <<StoredJane>>
    /\ Len(handled) = 2
    /\ handled[1].exc = "KeyError"
    /\ handled[1].record.Id = 5
    /\ handled[2].exc = "none"
    /\ handled[2].record.Id = 6
    /\ Len(membersC) = 2
    /\ membersC[1] = [StoredJane EXCEPT !.fullname = <<"K">>, !.billing_name = <<"K">>]

(* the Ids of the member records of the feed *)
MemberIds == {r.Id : r \in {x \in MemberRecords : "Id" \in DOMAIN x}}

(* exactly one row of the table has the key k, with auto_process false *)
OneRowFalse(rows, k) ==
    /\ Count(rows, "nexudus_user_id", k) = 1
    /\ Only(rows, "nexudus_user_id", k).process_automatically = "False"

(* C20: for a Member stored as exactly one row with auto_process false, no *)
(* step of a Member sync makes auto_process true: a reconcile step leaves  *)
(* the session with exactly one row for it, auto_process false, whatever   *)
(* the record holds, and the committed row stays one row with auto_process *)
(* false through every step of every run.                                  *)
C20_NeverBackToTrue ==
    [][ kind = "member" =>
          \A k \in MemberIds :
              /\ (pc = "callback" /\ OneRowFalse(members, k)) => OneRowFalse(members', k)
              /\ OneRowFalse(membersC, k) => OneRowFalse(membersC', k) ]_vars

(* C20, witness: with the default true, a Member stored once with          *)
(* auto_process true was forced to false by a record with blank bank       *)
(* fields, and the next record, with bank fields populated, was committed: *)
(* its row has the bank fields and auto_process false.                     *)
C20_Witness ==
    /\ kind = "member"
    /\ PROCESS_AUTOMATICALLY = "True"
    /\ start.members = <<StoredJane>>
    /\ Len(handled) = 2
    /\ handled[1].exc = "none"
    /\ handled[1].record.Id = 5
    /\ ~NonBlank(handled[1].record.BankBranch)
    /\ handled[2].exc = "none"
    /\ handled[2].record = Jane
    /\ Len(membersC) = 1
    /\ NonBlank(membersC[1].routing_number)
    /\ NonBlank(membersC[1].account_number)
    /\ membersC[1].process_automatically = "False"

====
